---------------------------- MODULE Spec2Model ----------------------------
(***************************************************************************)
(* A model of bisslog_flask/init_flask_app.py: the runtime binder that     *)
(* turns service metadata into Flask routes (init_flask_app,               *)
(* _add_use_case, _configure_endpoint_cors), the path conversion it uses,  *)
(* and the request adapter (_use_case_factory, _lambda_fn).                *)
(*                                                                         *)
(* Three specifications share the module:                                  *)
(*   Spec         one run of init_flask_app on a fresh application, one    *)
(*                step per iteration of its trigger loop;                  *)
(*   SpecPath     the path conversion applied to two arbitrary templates;  *)
(*   SpecAdapter  one call of a route handler built by _use_case_factory.  *)
(*                                                                         *)
(* Left out, as no property below reads them: the reading of the metadata  *)
(* file (line 134), the secret keys stored in app.config (lines 141-144)   *)
(* and an application passed in by the caller (every run starts from a     *)
(* fresh one).  The derivation of the symbol name from the keyname (lines  *)
(* 157-159) is folded into ModuleStates: what the module tree holds under  *)
(* the derived name.                                                       *)
(*                                                                         *)
(* Python's None is the string "None" where the value is a name, and the   *)
(* record NoneOf where the value is an optional list.  Strings that the    *)
(* code edits character by character (paths) are sequences of characters.  *)
(***************************************************************************)
EXTENDS Integers, Sequences, FiniteSets, TLC

VARIABLES
    \* ---- init_flask_app: inputs
    use_cases,          \* service_info.use_cases.values(): sequence of UseCaseInfo
    modules,            \* what importing <use_case_src>.<keyname> gives, per use case
    \* ---- init_flask_app: program state
    app,                \* the Flask application: url_map, view_functions, cors
    ucIdx,              \* position of the outer loop (line 147)
    trIdx,              \* position of the inner loop (line 150)
    use_case_function,  \* the local of line 148
    status,             \* "running" | "returned" | "raised"
    exc,                \* the exception that left init_flask_app, or "None"
    imports,            \* calls of importlib.import_module, per use case
    lookups,            \* calls of hasattr(module, var), per use case
    stdout,             \* keynames printed by line 166, in order
    \* ---- path conversion
    tplA, tplB,         \* two path templates
    pathA, pathB,       \* their converted paths (NotYet before the conversion)
    \* ---- request adapter
    handler,            \* the view function built by _use_case_factory
    request,            \* flask.request during the call
    call_kwargs,        \* keyword arguments the framework passes to the view
    fn_raises,          \* whether the wrapped use case raises when invoked
    fn_calls,           \* keyword arguments of every invocation of the use case
    outcome             \* what the call of the view function ended in

binderVars  == <<use_cases, modules, app, ucIdx, trIdx, use_case_function,
                 status, exc, imports, lookups, stdout>>
pathVars    == <<tplA, tplB, pathA, pathB>>
adapterVars == <<handler, request, call_kwargs, fn_raises, fn_calls, outcome>>
vars        == <<binderVars, pathVars, adapterVars>>

None == "None"

\* An optional list: absent (None) or a list, possibly empty.
NoneOf == [some |-> FALSE, val |-> <<>>]

Some(v) == [some |-> TRUE, val |-> v]

(***************************************************************************)
(* Bounds of the model.                                                    *)
(***************************************************************************)
\* Most triggers one use case declares.
MaxTriggers == 2

\* Longest path template of the path-conversion specification.
MaxLen == 3

(***************************************************************************)
(* Path conversion (line 86): str.replace applied twice.                   *)
(***************************************************************************)
RECURSIVE Replace(_, _, _)
\* s.replace(old, new) for one-character old and new.
Replace(s, old, new) ==
    IF s = <<>> THEN <<>>
    ELSE <<IF Head(s) = old THEN new ELSE Head(s)>> \o Replace(Tail(s), old, new)

\* A conversion that forgets the closing brace.
ConvertPathOpenOnly(path) == Replace(path, "{", "<")

ConvertPath(path) == Replace(Replace(path, "{", "<"), "}", ">")

\* str.upper() on the method names the metadata uses.
Upper(method) ==
    CASE method = "get"    -> "GET"
      [] method = "post"   -> "POST"
      [] method = "put"    -> "PUT"
      [] method = "delete" -> "DELETE"
      [] method = "patch"  -> "PATCH"
      [] OTHER             -> method

(***************************************************************************)
(* Metadata: the triggers a use case may declare.                          *)
(***************************************************************************)
ItemsPath == <<"/", "i", "t", "e", "m", "s">>

ItemPath == <<"/", "i", "t", "e", "m", "s", "/", "{", "i", "d", "}">>

HttpOptions(method, path, allow_cors, allowed_origins, mapper) ==
    [kind |-> "TriggerHttp", method |-> method, path |-> path,
     allow_cors |-> allow_cors, allowed_origins |-> allowed_origins,
     mapper |-> mapper]

OtherOptions(kind) ==
    [kind |-> kind, method |-> "", path |-> <<>>,
     allow_cors |-> FALSE, allowed_origins |-> NoneOf, mapper |-> None]

TriggerPool ==
    { [type |-> "HTTP",
       options |-> HttpOptions("get", ItemsPath, FALSE, NoneOf, None)],
      [type |-> "HTTP",
       options |-> HttpOptions("post", ItemsPath, TRUE,
                               Some(<<"https://a.example">>), "itemMapper")],
      [type |-> "HTTP",
       options |-> HttpOptions("PUT", ItemsPath, TRUE,
                               Some(<<"https://b.example">>), None)],
      [type |-> "HTTP",
       options |-> HttpOptions("delete", ItemPath, TRUE, NoneOf, None)],
      [type |-> "HTTP",
       options |-> HttpOptions("patch", ItemPath, TRUE, Some(<<>>), None)],
      [type |-> "WEBSOCKET", options |-> OtherOptions("TriggerWebsocket")],
      [type |-> "CONSUMER", options |-> OtherOptions("TriggerConsumer")] }

\* The keynames of service_info.use_cases: keys of a dict, so distinct.
Keynames == <<"getItem", "addItem">>

\* The trigger lists of a use case: up to MaxTriggers triggers, no trigger
\* declared twice.
TriggerLists ==
    UNION { { tl \in [1..n -> TriggerPool] :
                \A i, j \in 1..n : tl[i] = tl[j] => i = j } :
            n \in 0..MaxTriggers }

\* What the import of a use case's module and the lookup of its symbol give:
\* the import raises; the module lacks the symbol; the symbol is bound to
\* None; the symbol is bound to the use case.
ModuleStates == {"import_error", "missing", "none", "callable"}

(***************************************************************************)
(* The Flask application.  url_map is the list of registered rules,        *)
(* view_functions maps an endpoint to its view function, and cors is the   *)
(* list of resources given to flask_cors.CORS, one per call, in order.     *)
(***************************************************************************)
FreshApp == [url_map |-> <<>>, view_functions |-> <<>>, cors |-> <<>>]

\* The closure uc of _use_case_factory.  id is the identity of the function
\* object: every call of the factory creates a new one.
UseCaseFactory(use_case_name, fn, mapper, id) ==
    [use_case_name |-> use_case_name, fn |-> fn, mapper |-> mapper, id |-> id]

\* cors_config["origins"] = "*": the string, which flask_cors reads as the
\* one-pattern list.
Wildcard == <<"*">>

\* if trigger_options.allowed_origins: ... (line 66) is Python truthiness.
Truthy(optional_list) == optional_list.some /\ optional_list.val # <<>>

CorsConfig(trigger_options) ==
    [methods |-> <<Upper(trigger_options.method)>>,
     allow_headers |-> <<"Content-Type", "Authorization">>,
     supports_credentials |-> TRUE,
     origins |-> IF Truthy(trigger_options.allowed_origins)
                 THEN trigger_options.allowed_origins.val
                 ELSE Wildcard]

\* CORS(app, resources={path: cors_config}): the resource is keyed by the
\* path alone.
ConfigureEndpointCors(a, path, trigger_options) ==
    IF ~trigger_options.allow_cors
    THEN a
    ELSE [a EXCEPT !.cors =
              Append(@, [path |-> path, config |-> CorsConfig(trigger_options)])]

\* Flask.add_url_rule: the rule is added to the url map; then an endpoint
\* that already has another view function is rejected (AssertionError:
\* "View function mapping is overwriting an existing endpoint function").
AddUrlRule(a, rule, endpoint, methods, view_func) ==
    LET added == [a EXCEPT !.url_map =
                      Append(@, [rule |-> rule, endpoint |-> endpoint,
                                 methods |-> methods])]
    IN  IF endpoint \in DOMAIN a.view_functions
           /\ a.view_functions[endpoint] # view_func
        THEN [app |-> added, raised |-> TRUE]
        ELSE [app |-> [added EXCEPT !.view_functions =
                           (endpoint :> view_func) @@ @],
              raised |-> FALSE]

IsTriggerHttp(options) == options.kind = "TriggerHttp"

\* _add_use_case: the new application and whether add_url_rule raised.
AddUseCase(a, use_case_info, trigger, fn) ==
    IF ~IsTriggerHttp(trigger.options)
    THEN [app |-> a, raised |-> FALSE]
    ELSE LET method == Upper(trigger.options.method)
             path   == ConvertPath(trigger.options.path)
             a1     == ConfigureEndpointCors(a, path, trigger.options)
         IN  AddUrlRule(a1, path, use_case_info.keyname, <<method>>,
                        UseCaseFactory(use_case_info.keyname, fn,
                                       trigger.options.mapper,
                                       Len(a1.url_map) + 1))

(***************************************************************************)
(* init_flask_app, lines 146-171.                                          *)
(***************************************************************************)
\* trigger.type not in (TriggerEnum.HTTP, TriggerEnum.WEBSOCKET) negated.
Qualifies(trigger) == trigger.type \in {"HTTP", "WEBSOCKET"}

\* An import whose failure is swallowed.
ImportRaisesNever(module) == FALSE

\* importlib.import_module raises for a module that cannot be imported.
ImportRaises(module) == module = "import_error"

\* A lookup that takes every module to have the symbol.
HasAttrAlways(module) == TRUE

HasAttr(module) == module \in {"none", "callable"}

\* A lookup whose result is dropped.
GetAttrForgotten(module, keyname) == None

\* getattr(module, var): the use case (named by its keyname here) or None.
GetAttr(module, keyname) == IF module = "callable" THEN keyname ELSE None

InitBinder ==
    /\ use_cases \in { [i \in 1..Len(Keynames) |->
                           [keyname |-> Keynames[i], triggers |-> tl[i]]] :
                       tl \in [1..Len(Keynames) -> TriggerLists] }
    /\ modules \in [1..Len(Keynames) -> ModuleStates]
    /\ app = FreshApp
    /\ ucIdx = 1
    /\ trIdx = 1
    /\ use_case_function = None
    /\ status = "running"
    /\ exc = None
    /\ imports = [i \in 1..Len(Keynames) |-> 0]
    /\ lookups = [i \in 1..Len(Keynames) |-> 0]
    /\ stdout = <<>>

IdleBinder ==
    /\ use_cases = <<>>
    /\ modules = <<>>
    /\ app = FreshApp
    /\ ucIdx = 1
    /\ trIdx = 1
    /\ use_case_function = None
    /\ status = "idle"
    /\ exc = None
    /\ imports = <<>>
    /\ lookups = <<>>
    /\ stdout = <<>>

InLoop ==
    /\ status = "running"
    /\ ucIdx <= Len(use_cases)
    /\ trIdx <= Len(use_cases[ucIdx].triggers)

\* The effect of a call of _add_use_case made from the loop body.
Bound(r) ==
    /\ app' = r.app
    /\ IF r.raised
       THEN status' = "raised" /\ exc' = "AssertionError" /\ trIdx' = trIdx
       ELSE status' = status /\ exc' = exc /\ trIdx' = trIdx + 1

\* Lines 151-152: a trigger of another type is passed over.
SkipTrigger ==
    /\ InLoop
    /\ ~Qualifies(use_cases[ucIdx].triggers[trIdx])
    /\ trIdx' = trIdx + 1
    /\ UNCHANGED <<use_cases, modules, app, ucIdx, use_case_function, status,
                   exc, imports, lookups, stdout>>
    /\ UNCHANGED <<pathVars, adapterVars>>

\* Lines 154-166: no use case function yet; import, look up, bind.
LocateUseCase ==
    /\ InLoop
    /\ LET uc      == use_cases[ucIdx]
           trigger == uc.triggers[trIdx]
           module  == modules[ucIdx]
       IN  /\ Qualifies(trigger)
           /\ use_case_function = None
           /\ imports' = [imports EXCEPT ![ucIdx] = @ + 1]
           /\ IF ImportRaises(module)
              THEN /\ status' = "raised"
                   /\ exc' = "ImportError"
                   /\ UNCHANGED <<app, trIdx, use_case_function, lookups, stdout>>
              ELSE /\ lookups' = [lookups EXCEPT ![ucIdx] = @ + 1]
                   /\ IF HasAttr(module)
                      THEN LET f == GetAttr(module, uc.keyname)
                           IN  /\ use_case_function' = f
                               /\ stdout' = stdout
                               /\ IF f # None /\ IsTriggerHttp(trigger.options)
                                  THEN Bound(AddUseCase(app, uc, trigger, f))
                                  ELSE /\ trIdx' = trIdx + 1
                                       /\ UNCHANGED <<app, status, exc>>
                      ELSE /\ stdout' = Append(stdout, uc.keyname)
                           /\ trIdx' = trIdx + 1
                           /\ UNCHANGED <<app, use_case_function, status, exc>>
    /\ UNCHANGED <<use_cases, modules, ucIdx>>
    /\ UNCHANGED <<pathVars, adapterVars>>

\* Lines 168-169: the use case function is known; bind an HTTP trigger.
ReuseUseCase ==
    /\ InLoop
    /\ LET uc      == use_cases[ucIdx]
           trigger == uc.triggers[trIdx]
       IN  /\ Qualifies(trigger)
           /\ use_case_function # None
           /\ IF IsTriggerHttp(trigger.options)
              THEN Bound(AddUseCase(app, uc, trigger, use_case_function))
              ELSE /\ trIdx' = trIdx + 1
                   /\ UNCHANGED <<app, status, exc>>
    /\ UNCHANGED <<use_cases, modules, ucIdx, use_case_function, imports,
                   lookups, stdout>>
    /\ UNCHANGED <<pathVars, adapterVars>>

\* Lines 147-148: the triggers of a use case are exhausted; the next use
\* case starts with use_case_function = None.
NextUseCase ==
    /\ status = "running"
    /\ ucIdx <= Len(use_cases)
    /\ trIdx > Len(use_cases[ucIdx].triggers)
    /\ ucIdx' = ucIdx + 1
    /\ trIdx' = 1
    /\ use_case_function' = None
    /\ UNCHANGED <<use_cases, modules, app, status, exc, imports, lookups, stdout>>
    /\ UNCHANGED <<pathVars, adapterVars>>

\* Line 171: return app.
ReturnApp ==
    /\ status = "running"
    /\ ucIdx > Len(use_cases)
    /\ status' = "returned"
    /\ UNCHANGED <<use_cases, modules, app, ucIdx, trIdx, use_case_function,
                   exc, imports, lookups, stdout>>
    /\ UNCHANGED <<pathVars, adapterVars>>

NotYet == <<"?">>

IdlePath == tplA = <<>> /\ tplB = <<>> /\ pathA = NotYet /\ pathB = NotYet

IdleAdapter ==
    /\ handler = UseCaseFactory("idle", None, None, 0)
    /\ request = [method |-> "GET", body |-> [kind |-> "absent", json |-> <<>>],
                  view_args |-> <<>>, args |-> <<>>, headers |-> <<>>]
    /\ call_kwargs = <<>>
    /\ fn_raises = FALSE
    /\ fn_calls = <<>>
    /\ outcome = "idle"

Init == InitBinder /\ IdlePath /\ IdleAdapter

Next == SkipTrigger \/ LocateUseCase \/ ReuseUseCase \/ NextUseCase \/ ReturnApp

Spec == Init /\ [][Next]_vars

(***************************************************************************)
(* Vocabulary of the binder's properties.                                  *)
(***************************************************************************)
UseCaseIds == 1..Len(use_cases)

TriggerIds(u) == 1..Len(use_cases[u].triggers)

TriggerOf(u, j) == use_cases[u].triggers[j]

\* The loop has finished its iteration for trigger j of use case u.
Processed(u, j) == u < ucIdx \/ (u = ucIdx /\ j < trIdx)

\* The trigger is one init_flask_app is to bind: HTTP or WEBSOCKET with
\* HTTP options.
Bindable(u, j) ==
    Qualifies(TriggerOf(u, j)) /\ TriggerOf(u, j).options.kind = "TriggerHttp"

Located(u) == modules[u] = "callable"

\* The route a bindable trigger is to be registered as.
RouteOf(u, j) ==
    [rule     |-> ConvertPath(TriggerOf(u, j).options.path),
     endpoint |-> use_cases[u].keyname,
     methods  |-> <<Upper(TriggerOf(u, j).options.method)>>]

RECURSIVE RoutesOfTriggers(_, _)
RoutesOfTriggers(u, j) ==
    IF j > Len(use_cases[u].triggers) THEN <<>>
    ELSE (IF Bindable(u, j) THEN <<RouteOf(u, j)>> ELSE <<>>)
         \o RoutesOfTriggers(u, j + 1)

RECURSIVE RoutesOfUseCases(_)
\* The routes of the located use cases from use case u on, in declared order.
RoutesOfUseCases(u) ==
    IF u > Len(use_cases) THEN <<>>
    ELSE (IF Located(u) THEN RoutesOfTriggers(u, 1) ELSE <<>>)
         \o RoutesOfUseCases(u + 1)

Range(seq) == { seq[i] : i \in DOMAIN seq }

\* The cross-origin policies flask_cors holds for a path.
PoliciesAt(path) ==
    { app.cors[i].config : i \in { k \in DOMAIN app.cors : app.cors[k].path = path } }

\* The pairs (use case, trigger) whose route init_flask_app has registered.
BoundTriggers ==
    { ut \in UNION { { <<u, j>> : j \in TriggerIds(u) } : u \in UseCaseIds } :
        /\ Located(ut[1])
        /\ Bindable(ut[1], ut[2])
        /\ Processed(ut[1], ut[2]) }

(***************************************************************************)
(* C1.  A run on a fresh application registers, for every located use case *)
(* and every HTTP/WEBSOCKET trigger with HTTP options, in declared order,  *)
(* exactly one route (converted path, upper-cased method, endpoint =       *)
(* keyname), for use cases with two or more such triggers as for one; no   *)
(* other trigger registers anything.  Stated as: the framework never       *)
(* rejects a registration, and at return the url map is exactly the list   *)
(* of those routes.                                                        *)
(***************************************************************************)
C1_OneRoutePerTrigger ==
    /\ exc # "AssertionError"
    /\ status = "returned" => app.url_map = RoutesOfUseCases(1)

(***************************************************************************)
(* C2.  A use case whose module imports but lacks the symbol: a diagnostic *)
(* is printed, no route (rule, view function or policy) is registered for  *)
(* any of its triggers, the run never raises while processing it, and the  *)
(* run goes on to the other use cases: at return every located use case    *)
(* has all its routes.                                                     *)
(***************************************************************************)
C2_MissingSymbolIsNotFatal ==
    \A u \in UseCaseIds :
        modules[u] = "missing" =>
            /\ \A r \in Range(app.url_map) : r.endpoint # use_cases[u].keyname
            /\ use_cases[u].keyname \notin DOMAIN app.view_functions
            /\ (\E j \in TriggerIds(u) :
                    Qualifies(TriggerOf(u, j)) /\ Processed(u, j))
                   => use_cases[u].keyname \in Range(stdout)
            /\ status = "raised" => ucIdx # u
            /\ status = "returned" =>
                   \A v \in UseCaseIds : \A j \in TriggerIds(v) :
                       Located(v) /\ Bindable(v, j) =>
                           RouteOf(v, j) \in Range(app.url_map)

\* A use case without its symbol has been passed, a later use case has
\* been bound, and the application has been returned.
C2_Witness ==
    /\ status = "returned"
    /\ \E u, v \in UseCaseIds :
           /\ u < v
           /\ modules[u] = "missing"
           /\ use_cases[u].keyname \in Range(stdout)
           /\ \E j \in TriggerIds(u) : Bindable(u, j)
           /\ \E r \in Range(app.url_map) : r.endpoint = use_cases[v].keyname

(***************************************************************************)
(* C3.  Two registered routes whose triggers declare different             *)
(* allowed_origins: the policy in effect for each is exactly the one built *)
(* from its own trigger, also when the two share a path and differ in      *)
(* method.                                                                 *)
(***************************************************************************)
C3_PoliciesDoNotInterfere ==
    status = "returned" =>
        \A a, b \in BoundTriggers :
            LET ta == TriggerOf(a[1], a[2]).options
                tb == TriggerOf(b[1], b[2]).options
            IN  (/\ a # b
                 /\ ta.allow_cors
                 /\ tb.allow_cors
                 /\ ta.allowed_origins # tb.allowed_origins)
                => /\ PoliciesAt(ConvertPath(ta.path)) = {CorsConfig(ta)}
                   /\ PoliciesAt(ConvertPath(tb.path)) = {CorsConfig(tb)}

(***************************************************************************)
(* C4.  Every bound HTTP trigger with allow_cors true has a policy at its  *)
(* path with methods = its upper-cased method, headers {Content-Type,      *)
(* Authorization}, credentials supported, and origins = the declared list  *)
(* whenever a list is declared, the wildcard only when none is declared.   *)
(***************************************************************************)
C4_PolicyOfTrigger ==
    \A a \in BoundTriggers :
        LET t == TriggerOf(a[1], a[2]).options
        IN  t.allow_cors =>
                [methods |-> <<Upper(t.method)>>,
                 allow_headers |-> <<"Content-Type", "Authorization">>,
                 supports_credentials |-> TRUE,
                 origins |-> IF t.allowed_origins.some
                             THEN t.allowed_origins.val
                             ELSE Wildcard]
                    \in PoliciesAt(ConvertPath(t.path))

(***************************************************************************)
(* C5.  After the run returns, no cross-origin policy applies to the route *)
(* of a trigger with allow_cors false or absent, whatever other triggers   *)
(* were bound in the run.                                                  *)
(***************************************************************************)
C5_NoPolicyWithoutAllowCors ==
    status = "returned" =>
        \A a \in BoundTriggers :
            ~TriggerOf(a[1], a[2]).options.allow_cors
                => PoliciesAt(RouteOf(a[1], a[2]).rule) = {}

(***************************************************************************)
(* C7.  A failing import of the module of a use case with an HTTP or       *)
(* WEBSOCKET trigger is not caught: the run ends raised with that error at *)
(* that use case, never returns, and no later use case is processed.       *)
(***************************************************************************)
C7_ImportErrorPropagates ==
    /\ \A u \in UseCaseIds :
           (/\ modules[u] = "import_error"
            /\ \E j \in TriggerIds(u) : Qualifies(TriggerOf(u, j)))
           => /\ ucIdx <= u
              /\ status # "returned"
              /\ \A j \in TriggerIds(u) :
                     Qualifies(TriggerOf(u, j)) => ~Processed(u, j)
              /\ imports[u] <= 1
              /\ imports[u] = 1 =>
                     (status = "raised" /\ exc = "ImportError" /\ ucIdx = u)
    /\ (status = "raised" /\ exc = "ImportError") =>
           /\ modules[ucIdx] = "import_error"
           /\ \A v \in UseCaseIds :
                  v > ucIdx =>
                      /\ imports[v] = 0
                      /\ lookups[v] = 0
                      /\ use_cases[v].keyname \notin Range(stdout)
                      /\ \A r \in Range(app.url_map) :
                             r.endpoint # use_cases[v].keyname

\* The import of the first use case failed while a second use case with a
\* trigger to bind was waiting.
C7_Witness ==
    /\ status = "raised"
    /\ exc = "ImportError"
    /\ ucIdx = 1
    /\ Len(use_cases) > 1
    /\ Located(2)
    /\ \E j \in TriggerIds(2) : Bindable(2, j)

(***************************************************************************)
(* C8 as stated.  For every use case with an HTTP or WEBSOCKET trigger,    *)
(* import and lookup are performed at most once, and exactly once from the *)
(* first qualifying trigger on.                                            *)
(***************************************************************************)
C8_LocatedOncePerUseCase ==
    \A u \in UseCaseIds :
        /\ imports[u] <= 1
        /\ lookups[u] <= 1
        /\ (\E j \in TriggerIds(u) : Qualifies(TriggerOf(u, j)) /\ Processed(u, j))
               => (imports[u] = 1 /\ lookups[u] = 1)

(***************************************************************************)
(* C8 amended.  For every use case whose callable is located (the module   *)
(* has the symbol, bound to something other than None), import and lookup  *)
(* are performed exactly once, on the first qualifying trigger: none       *)
(* before it, one from it on.                                              *)
(***************************************************************************)
C8_LocatedOnceWhenFound ==
    \A u \in UseCaseIds :
        Located(u) =>
            LET started ==
                    \E j \in TriggerIds(u) :
                        /\ Qualifies(TriggerOf(u, j))
                        /\ (Processed(u, j) \/ (status = "raised" /\ u = ucIdx))
                n == IF started THEN 1 ELSE 0
            IN  imports[u] = n /\ lookups[u] = n

\* A located use case with two qualifying triggers, both processed.
C8_Witness ==
    \E u \in UseCaseIds :
        /\ Located(u)
        /\ imports[u] = 1
        /\ \E j, k \in TriggerIds(u) :
               /\ j < k
               /\ Qualifies(TriggerOf(u, j))
               /\ Qualifies(TriggerOf(u, k))
               /\ Processed(u, k)

(***************************************************************************)
(* SpecPath: the path conversion of line 86 on two templates over a small  *)
(* alphabet holding a literal character, both braces and both angle        *)
(* brackets.                                                               *)
(***************************************************************************)
PathChars == {"a", "{", "}", "<", ">"}

Templates == UNION { [1..n -> PathChars] : n \in 0..MaxLen }

InitPath ==
    /\ tplA \in Templates
    /\ tplB \in Templates
    /\ pathA = NotYet
    /\ pathB = NotYet

\* path = trigger.options.path.replace("{", "<").replace("}", ">")
Convert ==
    /\ status = "idle"
    /\ pathA = NotYet
    /\ pathA' = ConvertPath(tplA)
    /\ pathB' = ConvertPath(tplB)
    /\ UNCHANGED <<tplA, tplB>>
    /\ UNCHANGED <<binderVars, adapterVars>>

InitSpecPath == IdleBinder /\ InitPath /\ IdleAdapter

NextPath == Convert

SpecPath == InitSpecPath /\ [][NextPath]_vars

\* The length of the name that starts s, followed by "}": 0 if s does not
\* start with a name and a closing brace.  A name is one or more "a".
RECURSIVE NameLen(_)
NameLen(s) ==
    IF s = <<>> \/ Head(s) # "a" THEN 0
    ELSE IF Len(s) >= 2 /\ s[2] = "}" THEN 1
    ELSE LET n == NameLen(Tail(s)) IN IF n = 0 THEN 0 ELSE n + 1

RECURSIVE ReplacePlaceholders(_)
\* The template with each {name} placeholder replaced by <name> and every
\* character outside a placeholder left as it is.
ReplacePlaceholders(s) ==
    IF s = <<>> THEN <<>>
    ELSE IF Head(s) = "{" /\ NameLen(Tail(s)) > 0
         THEN LET n == NameLen(Tail(s))
              IN  <<"<">> \o SubSeq(s, 2, n + 1) \o <<">">>
                  \o ReplacePlaceholders(SubSeq(s, n + 3, Len(s)))
         ELSE <<Head(s)>> \o ReplacePlaceholders(Tail(s))

NoAngle(s) == \A i \in DOMAIN s : s[i] \notin {"<", ">"}

\* Every brace of the template belongs to a placeholder.
BracesArePlaceholders(s) ==
    \A i \in DOMAIN ReplacePlaceholders(s) :
        ReplacePlaceholders(s)[i] \notin {"{", "}"}

(***************************************************************************)
(* C6 as stated.  The registered path is the template with each {name}     *)
(* placeholder replaced by <name> and every character outside a            *)
(* placeholder unchanged, and two different templates never yield the same *)
(* registered path.                                                        *)
(***************************************************************************)
C6_ConversionIsBijection ==
    pathA # NotYet =>
        /\ pathA = ReplacePlaceholders(tplA)
        /\ tplA # tplB => pathA # pathB

(***************************************************************************)
(* C6 amended.  The registered path has the template's length, with every  *)
(* "{" replaced by "<", every "}" by ">" and every other character         *)
(* unchanged; so a template whose braces all belong to placeholders has    *)
(* each {name} replaced by <name>, in order.  Two different templates      *)
(* without "<" and ">" never yield the same registered path.               *)
(***************************************************************************)
C6_ConversionOfBraces ==
    pathA # NotYet =>
        /\ Len(pathA) = Len(tplA)
        /\ \A i \in DOMAIN tplA :
               pathA[i] = CASE tplA[i] = "{" -> "<"
                            [] tplA[i] = "}" -> ">"
                            [] OTHER         -> tplA[i]
        /\ BracesArePlaceholders(tplA) => pathA = ReplacePlaceholders(tplA)
        /\ (NoAngle(tplA) /\ NoAngle(tplB) /\ tplA # tplB) => pathA # pathB

\* A placeholder has been converted, beside a different template without
\* angle brackets.
C6_Witness ==
    /\ tplA = <<"{", "a", "}">>
    /\ pathA = <<"<", "a", ">">>
    /\ NoAngle(tplB)
    /\ tplB # tplA
    /\ Len(tplB) = Len(tplA)

(***************************************************************************)
(* SpecAdapter: one call of a view function built by _use_case_factory.    *)
(***************************************************************************)
Keys == {"id", "name"}

Values == {"1", "2"}

\* Keyword arguments and JSON objects: finite maps from Keys to Values.
Dicts == UNION { [K -> Values] : K \in SUBSET Keys }

\* request.get_json(silent=True): None for an absent or an invalid body,
\* the decoded object otherwise.
Bodies ==
    { [kind |-> "absent", json |-> <<>>], [kind |-> "invalid", json |-> <<>>] }
    \cup { [kind |-> "object", json |-> d] : d \in Dicts }

\* request.get_json(silent=True) or {}
GetJsonOrEmpty(req) == IF req.body.kind = "object" THEN req.body.json ELSE <<>>

\* The base table of the mapper a trigger declares: destination field ->
\* source category and source field.
MapperBase(mapper) ==
    [item_id |-> [source |-> "path_query", field |-> "id"],
     name    |-> [source |-> "body", field |-> "name"]]

\* Mapper.map: every destination whose source field is present.
MapperMap(mapper, snapshot) ==
    LET base == MapperBase(mapper)
        dest == { d \in DOMAIN base :
                    base[d].field \in DOMAIN snapshot[base[d].source] }
    IN  [d \in dest |-> snapshot[base[d].source][base[d].field]]

\* fn(**kwargs): the invocations of the use case and how the call ends.
Invoke(kwargs, raises, ok) ==
    [fn_calls |-> <<kwargs>>, outcome |-> IF raises THEN "UseCaseError" ELSE ok]

\* fn(*args, **kwargs, **more_kwargs): Python raises TypeError ("got
\* multiple values for keyword argument") before calling fn when a key is
\* in both mappings.
MergeKwargs(kwargs, more_kwargs, raises) ==
    IF DOMAIN kwargs \cap DOMAIN more_kwargs # {}
    THEN [fn_calls |-> <<>>, outcome |-> "TypeError"]
    ELSE Invoke(kwargs @@ more_kwargs, raises, "result")

\* _lambda_fn(*args, fn, __mapper__, **kwargs) under request req.
LambdaFn(h, kwargs, req, raises) ==
    IF h.mapper = None
    THEN LET more_kwargs == IF req.method # "GET" THEN GetJsonOrEmpty(req) ELSE <<>>
         IN  MergeKwargs(kwargs, more_kwargs, raises)
    ELSE LET res_map == MapperMap(h.mapper,
                                  [path_query |-> req.view_args,
                                   body       |-> GetJsonOrEmpty(req),
                                   params     |-> req.args,
                                   headers    |-> req.headers])
         IN  Invoke(res_map, raises, "jsonify(result)")

InitAdapter ==
    /\ handler \in { UseCaseFactory("getItem", "getItem", m, 1) :
                     m \in {None, "itemMapper"} }
    /\ call_kwargs \in Dicts
    /\ request \in { [method |-> m, body |-> b, view_args |-> call_kwargs,
                      args |-> <<>>, headers |-> <<>>] :
                     m \in {"GET", "POST", "PUT"}, b \in Bodies }
    /\ fn_raises \in BOOLEAN
    /\ fn_calls = <<>>
    /\ outcome = "pending"

\* The framework calls the view function uc with the path arguments.
CallView ==
    /\ outcome = "pending"
    /\ LET r == LambdaFn(handler, call_kwargs, request, fn_raises)
       IN  fn_calls' = r.fn_calls /\ outcome' = r.outcome
    /\ UNCHANGED <<handler, request, call_kwargs, fn_raises>>
    /\ UNCHANGED <<binderVars, pathVars>>

InitSpecAdapter == IdleBinder /\ IdlePath /\ InitAdapter

NextAdapter == CallView

SpecAdapter == InitSpecAdapter /\ [][NextAdapter]_vars

(***************************************************************************)
(* C9.  Without a mapper, for every combination of path arguments and      *)
(* request body, the use case is called with the union of the path         *)
(* arguments and, when the method is not GET, the keys of the decoded      *)
(* body; an absent or invalid body contributes nothing.                    *)
(***************************************************************************)
C9_NoMapperKwargs ==
    (outcome # "pending" /\ handler.mapper = None) =>
        fn_calls = << call_kwargs @@
                      (IF request.method # "GET" /\ request.body.kind = "object"
                       THEN request.body.json ELSE <<>>) >>

(***************************************************************************)
(* C10.  Every call of the view function, with or without a mapper,        *)
(* invokes the use case exactly once; when the use case raises, its        *)
(* exception is what leaves the view function.                             *)
(***************************************************************************)
C10_InvokedExactlyOnce ==
    outcome # "pending" =>
        /\ Len(fn_calls) = 1
        /\ fn_raises => outcome = "UseCaseError"

=============================================================================
